---------------------------- MODULE Spec2Model ----------------------------
(***************************************************************************)
(* A model of kfac/layers/utils.py: the five tensor helpers of the K-FAC   *)
(* layer code (append_bias_ones, get_cov, get_elementwise_inverse,         *)
(* reshape_data, update_running_avg) and a caller that owns the tensors.   *)
(*                                                                         *)
(* Numbers.  A scalar is a pair <<n, d>>: the rational n/d in lowest terms *)
(* with d > 0, or one of the three IEEE specials a division by zero        *)
(* produces: <<1, 0>> (+inf), <<-1, 0>> (-inf), <<0, 0>> (NaN).  Finite    *)
(* arithmetic is exact (rounding and the sign of zero are not modelled).   *)
(*                                                                         *)
(* Tensors.  A tensor is [shape, data]: its shape (a sequence of axis      *)
(* sizes) and its elements in row-major order, the layout of a contiguous  *)
(* torch tensor.  Multi-indices are sequences of 0-based positions.        *)
(*                                                                         *)
(* Memory.  The caller's tensors live in heap, a sequence of tensor        *)
(* objects; a reference is a position in it (0 is None).  Every helper is  *)
(* an operator from a heap and its arguments to the heap it leaves, the    *)
(* value it returns and the exception it raises, so that in-place steps    *)
(* and aliasing are visible.                                               *)
(***************************************************************************)
EXTENDS Integers, Sequences, FiniteSets, TLC

VARIABLES
  heap,       \* the caller's tensor objects after the last call
  pre,        \* the same objects as they were when the last call was made
  data_list,  \* the caller's list object (references) after the last call
  op,         \* name of the helper the last call invoked ("init" before any)
  args,       \* the arguments of the last call: references, scalars, flags
  ret,        \* what the last call returned: <<>> (None) or <<tensor>>
  exc,        \* the exception the last call raised ("" when none)
  avg         \* history of the running average the caller keeps: the tensor
              \* it started from and the update calls made on it since

vars == <<heap, pre, data_list, op, args, ret, exc, avg>>

---------------------------------------------------------------------------
(* Bounds of the model *)

\* largest axis size of an input tensor
MaxDim == 2
\* largest number of axes of an input tensor
MaxRank == 3
\* largest number of elements of an input tensor
MaxNumel == 4
\* largest length of data_list
MaxList == 2
\* largest number of consecutive update_running_avg calls on one current
MaxUpdates == 3

---------------------------------------------------------------------------
(* Scalars *)

Abs(n) == IF n < 0 THEN -n ELSE n

Sign(n) == IF n < 0 THEN -1 ELSE IF n > 0 THEN 1 ELSE 0

RECURSIVE GCD(_, _)
GCD(m, n) == IF n = 0 THEN m ELSE GCD(n, m % n)

\* n/d in lowest terms with a positive denominator; x/0 is +-inf or NaN
Norm(n, d) ==
  IF d = 0 THEN <<Sign(n), 0>>
  ELSE LET g == GCD(Abs(n), Abs(d))
       IN  <<(Sign(d) * n) \div g, Abs(d) \div g>>

Q(n, d) == Norm(n, d)
Zero == <<0, 1>>
One == <<1, 1>>
Two == <<2, 1>>
PInf == <<1, 0>>
NInf == <<-1, 0>>
NaN == <<0, 0>>

IsNaN(x) == x = NaN
IsFinite(x) == x[2] # 0

\* IEEE addition: inf + (-inf) and anything with NaN give NaN
Add(x, y) ==
  IF IsNaN(x) \/ IsNaN(y) THEN NaN
  ELSE IF ~IsFinite(x) /\ ~IsFinite(y) THEN (IF x = y THEN x ELSE NaN)
  ELSE IF ~IsFinite(x) THEN x
  ELSE IF ~IsFinite(y) THEN y
  ELSE Norm(x[1] * y[2] + y[1] * x[2], x[2] * y[2])

Neg(x) == <<-x[1], x[2]>>

Sub(x, y) == Add(x, Neg(y))

\* IEEE multiplication: 0 * inf and anything with NaN give NaN
Mul(x, y) == Norm(x[1] * y[1], x[2] * y[2])

\* torch.reciprocal on one element: 1/0 is inf, 1/inf is 0
Recip(x) == Norm(x[2], x[1])

\* IEEE division: x/0 is +-inf, 0/0 and inf/inf are NaN
Div(x, y) == Mul(x, Recip(y))

\* IEEE comparison: NaN equals nothing, itself included
Eq(x, y) == ~IsNaN(x) /\ ~IsNaN(y) /\ x = y

Leq(x, y) ==
  /\ ~IsNaN(x) /\ ~IsNaN(y)
  /\ \/ x = y
     \/ x = NInf
     \/ y = PInf
     \/ IsFinite(x) /\ IsFinite(y) /\ x[1] * y[2] <= y[1] * x[2]

---------------------------------------------------------------------------
(* Shapes and indices *)

RECURSIVE Numel(_)
Numel(shape) ==
  IF shape = <<>> THEN 1 ELSE Head(shape) * Numel(Tail(shape))

\* row-major position (0-based) of multi-index idx in a tensor of this shape
RECURSIVE Ravel(_, _)
Ravel(shape, idx) ==
  IF shape = <<>> THEN 0
  ELSE Head(idx) * Numel(Tail(shape)) + Ravel(Tail(shape), Tail(idx))

\* the multi-index at row-major position k (0-based)
RECURSIVE Unravel(_, _)
Unravel(shape, k) ==
  IF shape = <<>> THEN <<>>
  ELSE LET m == Numel(Tail(shape))
       IN  <<k \div m>> \o Unravel(Tail(shape), k % m)

Indices(shape) == {Unravel(shape, k) : k \in 0 .. Numel(shape) - 1}

At(t, idx) == t.data[Ravel(t.shape, idx) + 1]

\* the tensor of this shape whose element at idx is f[idx]
FromFn(shape, f) ==
  [shape |-> shape,
   data |-> [k \in 1 .. Numel(shape) |-> f[Unravel(shape, k - 1)]]]

Rank(t) == Len(t.shape)

---------------------------------------------------------------------------
(* The tensor operations of torch the helpers use *)

\* the outcome of an operation: the value it yields, or the exception raised
Ok(v) == [exc |-> "", val |-> <<v>>]
Err(e) == [exc |-> e, val |-> <<>>]

\* tensor.new_ones(shape)
new_ones(shape) == FromFn(shape, [idx \in Indices(shape) |-> One])

\* number of positions along axis d (0-based) taken by the first k tensors
RECURSIVE CatOffset(_, _, _)
CatOffset(ts, d, k) ==
  IF k = 0 THEN 0 ELSE CatOffset(ts, d, k - 1) + ts[k].shape[d + 1]

\* which tensor of ts holds position p of the concatenation along axis d
CatOwner(ts, d, p) ==
  CHOOSE k \in 1 .. Len(ts) :
    CatOffset(ts, d, k - 1) <= p /\ p < CatOffset(ts, d, k)

\* torch.cat(ts, dim): a new tensor; dim may be negative (counted from the
\* end).  Raises on an empty list, a 0-d tensor, an axis the tensors do not
\* have, or tensors that differ in rank or in an axis other than dim.
cat(ts, dim) ==
  IF Len(ts) = 0 THEN Err("RuntimeError")
  ELSE IF \E k \in 1 .. Len(ts) : Rank(ts[k]) = 0 THEN Err("RuntimeError")
  ELSE
    LET r == Rank(ts[1])
        d == IF dim < 0 THEN dim + r ELSE dim
    IN  IF d < 0 \/ d >= r THEN Err("IndexError")
        ELSE IF \E k \in 1 .. Len(ts) :
                  \/ Rank(ts[k]) # r
                  \/ \E i \in 1 .. r : i # d + 1 /\ ts[k].shape[i] # ts[1].shape[i]
        THEN Err("RuntimeError")
        ELSE
          LET shape == [ts[1].shape EXCEPT ![d + 1] = CatOffset(ts, d, Len(ts))]
              elem(idx) ==
                LET k == CatOwner(ts, d, idx[d + 1])
                IN  At(ts[k], [idx EXCEPT ![d + 1] = @ - CatOffset(ts, d, k - 1)])
          IN  Ok(FromFn(shape, [idx \in Indices(shape) |-> elem(idx)]))

\* x.t() of a 2-D tensor
t(x) ==
  LET shape == <<x.shape[2], x.shape[1]>>
  IN  FromFn(shape, [idx \in Indices(shape) |-> At(x, <<idx[2], idx[1]>>)])

\* sum of x[i][k] * y[k][j] over k = 0 .. n - 1, accumulated in order
RECURSIVE Dot(_, _, _, _, _)
Dot(x, y, i, j, n) ==
  IF n = 0 THEN Zero
  ELSE Add(Dot(x, y, i, j, n - 1), Mul(At(x, <<i, n - 1>>), At(y, <<n - 1, j>>)))

\* x @ y of 2-D tensors [P, K] and [K, R]
matmul(x, y) ==
  LET shape == <<x.shape[1], y.shape[2]>>
  IN  FromFn(shape,
             [idx \in Indices(shape) |-> Dot(x, y, idx[1], idx[2], x.shape[2])])

\* x / s, x + s, x * s for a scalar s: a new tensor
div_scalar(x, s) ==
  [shape |-> x.shape, data |-> [k \in DOMAIN x.data |-> Div(x.data[k], s)]]

add_scalar(x, s) ==
  [shape |-> x.shape, data |-> [k \in DOMAIN x.data |-> Add(x.data[k], s)]]

mul_scalar(x, s) ==
  [shape |-> x.shape, data |-> [k \in DOMAIN x.data |-> Mul(x.data[k], s)]]

\* x + y of tensors of one shape: a new tensor
add(x, y) ==
  [shape |-> x.shape, data |-> [k \in DOMAIN x.data |-> Add(x.data[k], y.data[k])]]

\* x != s: the positions (in row-major order) whose element differs from s
ne_scalar(x, s) == [k \in DOMAIN x.data |-> ~Eq(x.data[k], s)]

\* the masked assignment with the sign lost:
\* x[mask] = torch.reciprocal(torch.abs(x[mask]))
masked_reciprocal_abs(x, mask) ==
  [shape |-> x.shape,
   data |-> [k \in DOMAIN x.data |->
               IF mask[k] THEN Recip(<<Abs(x.data[k][1]), x.data[k][2]>>)
               ELSE x.data[k]]]

\* torch.reciprocal(x[mask]) assigned to x[mask]: the elements under the mask
\* are replaced by their reciprocals, the others are kept
masked_reciprocal(x, mask) ==
  [shape |-> x.shape,
   data |-> [k \in DOMAIN x.data |-> IF mask[k] THEN Recip(x.data[k]) ELSE x.data[k]]]

\* x.view(-1, n): the same elements in the same order under shape [numel/n, n]
view2(x, n) == [shape |-> <<Numel(x.shape) \div n, n>>, data |-> x.data]

\* whether y can be broadcast to the shape of x (for the in-place x += y)
Broadcastable(x, y) ==
  /\ Rank(y) <= Rank(x)
  /\ \A j \in 1 .. Rank(y) :
       LET i == j + Rank(x) - Rank(y)
       IN  y.shape[j] = 1 \/ y.shape[j] = x.shape[i]

\* the element of y that broadcasting pairs with position idx of x
BroadcastAt(x, y, idx) ==
  At(y, [j \in 1 .. Rank(y) |->
           IF y.shape[j] = 1 THEN 0 ELSE idx[j + Rank(x) - Rank(y)]])

---------------------------------------------------------------------------
(* The helpers of kfac/layers/utils.py *)

\* how a call ends: the caller's heap, the value returned (<<>> is None) and
\* the exception raised ("" is none)
Return(h, v) == [heap |-> h, ret |-> v, exc |-> ""]
Raise(h, e) == [heap |-> h, ret |-> <<>>, exc |-> e]

\* append_bias_ones with the column of ones put first:
\* torch.cat([tensor.new_ones(shape), tensor], dim=-1)
append_bias_ones_prepended(h, tensor) ==
  LET shape == SubSeq(h[tensor].shape, 1, Rank(h[tensor]) - 1) \o <<1>>
      r == cat(<<new_ones(shape), h[tensor]>>, -1)
  IN  IF r.exc # "" THEN Raise(h, r.exc) ELSE Return(h, r.val)

\* def append_bias_ones(tensor)
append_bias_ones(h, tensor) ==
  LET shape == SubSeq(h[tensor].shape, 1, Rank(h[tensor]) - 1) \o <<1>>
      r == cat(<<h[tensor], new_ones(shape)>>, -1)
  IN  IF r.exc # "" THEN Raise(h, r.exc) ELSE Return(h, r.val)

\* get_cov that symmetrizes in both branches: with b given it returns
\* (cov + cov.t()) / 2.0 of cov = a.t() @ (b / scale)
get_cov_symmetrized(h, a, b, scale) ==
  IF Rank(h[a]) # 2 THEN Raise(h, "ValueError")
  ELSE IF b # 0 /\ h[a].shape # h[b].shape THEN Raise(h, "ValueError")
  ELSE
    LET s == IF scale = <<>> THEN Q(h[a].shape[1], 1) ELSE scale[1]
        cov_a == matmul(t(h[a]), div_scalar(h[IF b = 0 THEN a ELSE b], s))
    IN  Return(h, <<div_scalar(add(cov_a, t(cov_a)), Two)>>)

\* get_cov with one more check: if scale == 0: raise ValueError
get_cov_rejects_zero_scale(h, a, b, scale) ==
  IF Rank(h[a]) # 2 THEN Raise(h, "ValueError")
  ELSE IF b # 0 /\ h[a].shape # h[b].shape THEN Raise(h, "ValueError")
  ELSE IF scale = <<Zero>> THEN Raise(h, "ValueError")
  ELSE
    LET s == IF scale = <<>> THEN Q(h[a].shape[1], 1) ELSE scale[1]
    IN  IF b = 0
        THEN LET cov_a == matmul(t(h[a]), div_scalar(h[a], s))
             IN  Return(h, <<div_scalar(add(cov_a, t(cov_a)), Two)>>)
        ELSE Return(h, <<matmul(t(h[a]), div_scalar(h[b], s))>>)

\* def get_cov(a, b=None, scale=None); b = 0 is None, scale = <<>> is None
get_cov(h, a, b, scale) ==
  IF Rank(h[a]) # 2 THEN Raise(h, "ValueError")
  ELSE IF b # 0 /\ h[a].shape # h[b].shape THEN Raise(h, "ValueError")
  ELSE
    LET s == IF scale = <<>> THEN Q(h[a].shape[1], 1) ELSE scale[1]
    IN  IF b = 0
        THEN LET cov_a == matmul(t(h[a]), div_scalar(h[a], s))
             IN  Return(h, <<div_scalar(add(cov_a, t(cov_a)), Two)>>)
        ELSE Return(h, <<matmul(t(h[a]), div_scalar(h[b], s))>>)

\* get_elementwise_inverse without the clone: reciprocal = vector, so the
\* masked assignment writes into the tensor vector names
get_elementwise_inverse_noclone(h, vector, damping) ==
  LET h1 == IF damping # <<>>
            THEN Append(h, add_scalar(h[vector], damping[1]))
            ELSE h
      vector1 == IF damping # <<>> THEN Len(h1) ELSE vector
      mask == ne_scalar(h1[vector1], Zero)
      reciprocal == vector1
      h3 == [h1 EXCEPT ![reciprocal] = masked_reciprocal(@, mask)]
  IN  Return(SubSeq(h3, 1, Len(h)), <<h3[reciprocal]>>)

\* get_elementwise_inverse with the mask taken before the damping is added
get_elementwise_inverse_mask_first(h, vector, damping) ==
  LET mask == ne_scalar(h[vector], Zero)
      h1 == IF damping # <<>>
            THEN Append(h, add_scalar(h[vector], damping[1]))
            ELSE h
      vector1 == IF damping # <<>> THEN Len(h1) ELSE vector
      h2 == Append(h1, h1[vector1])
      reciprocal == Len(h2)
      h3 == [h2 EXCEPT ![reciprocal] = masked_reciprocal(@, mask)]
  IN  Return(SubSeq(h3, 1, Len(h)), <<h3[reciprocal]>>)

\* def get_elementwise_inverse(vector, damping=None); damping = <<>> is None.
\* The local name vector is rebound to a new tensor when damping is given;
\* reciprocal is a clone, and the masked assignment writes into the clone.
get_elementwise_inverse(h, vector, damping) ==
  LET h1 == IF damping # <<>>
            THEN Append(h, add_scalar(h[vector], damping[1]))
            ELSE h
      vector1 == IF damping # <<>> THEN Len(h1) ELSE vector
      mask == ne_scalar(h1[vector1], Zero)
      h2 == Append(h1, h1[vector1])
      reciprocal == Len(h2)
      h3 == [h2 EXCEPT ![reciprocal] = masked_reciprocal(@, mask)]
  IN  Return(SubSeq(h3, 1, Len(h)), <<h3[reciprocal]>>)

\* the tensors a list of references names
Deref(h, refs) == [k \in 1 .. Len(refs) |-> h[refs[k]]]

\* reshape_data with the axis the wrong way round: dim=int(batch_first)
reshape_data_swapped_axis(h, list, batch_first, collapse_dims) ==
  LET r == cat(Deref(h, list), IF batch_first THEN 1 ELSE 0)
  IN  IF r.exc # "" THEN [heap |-> h, list |-> list, ret |-> <<>>, exc |-> r.exc]
      ELSE LET d == r.val[1]
           IN  [heap |-> h,
                list |-> list,
                ret |-> IF collapse_dims /\ Rank(d) > 2
                        THEN <<view2(d, d.shape[Rank(d)])>>
                        ELSE <<d>>,
                exc |-> ""]

\* def reshape_data(data_list, batch_first=True, collapse_dims=False); list
\* is the list object as the call leaves it
reshape_data(h, list, batch_first, collapse_dims) ==
  LET r == cat(Deref(h, list), IF batch_first THEN 0 ELSE 1)
  IN  IF r.exc # "" THEN [heap |-> h, list |-> list, ret |-> <<>>, exc |-> r.exc]
      ELSE LET d == r.val[1]
           IN  [heap |-> h,
                list |-> list,
                ret |-> IF collapse_dims /\ Rank(d) > 2
                        THEN <<view2(d, d.shape[Rank(d)])>>
                        ELSE <<d>>,
                exc |-> ""]

\* current *= s, in place
imul(h, x, s) == [h EXCEPT ![x] = mul_scalar(@, s)]

\* current += new, in place, new broadcast to the shape of current; reads new
\* from the heap as it is at that step (new may be current itself)
iadd(h, x, y) ==
  IF ~Broadcastable(h[x], h[y]) THEN Raise(h, "RuntimeError")
  ELSE Return([h EXCEPT ![x] =
                 FromFn(@.shape, [idx \in Indices(@.shape) |->
                                    Add(At(@, idx), BroadcastAt(@, h[y], idx))])],
              <<>>)

\* update_running_avg without its last step, current *= 1 - alpha
update_running_avg_unscaled(h, new, current, alpha) ==
  IF ~Eq(alpha, One)
  THEN LET h1 == imul(h, current, Div(alpha, Sub(One, alpha)))
       IN  iadd(h1, current, new)
  ELSE Return(h, <<>>)

\* update_running_avg whose first step is current *= alpha
update_running_avg_first_alpha(h, new, current, alpha) ==
  IF ~Eq(alpha, One)
  THEN LET h1 == imul(h, current, alpha)
           r2 == iadd(h1, current, new)
       IN  IF r2.exc # "" THEN r2
           ELSE Return(imul(r2.heap, current, Sub(One, alpha)), <<>>)
  ELSE Return(h, <<>>)

\* def update_running_avg(new, current, alpha=1.0)
update_running_avg(h, new, current, alpha) ==
  IF ~Eq(alpha, One)
  THEN LET h1 == imul(h, current, Div(alpha, Sub(One, alpha)))
           r2 == iadd(h1, current, new)
       IN  IF r2.exc # "" THEN r2
           ELSE Return(imul(r2.heap, current, Sub(One, alpha)), <<>>)
  ELSE Return(h, <<>>)

---------------------------------------------------------------------------
(* The inputs the caller draws *)

\* element values of the input tensors
Vals == {Q(-1, 1), Zero, Two}

\* the scale argument of get_cov (<<>> is None)
Scales == {<<>>, <<Zero>>, <<Two>>, <<Q(-1, 2)>>}

\* the damping argument of get_elementwise_inverse (<<>> is None)
Dampings == {<<>>, <<Zero>>, <<One>>, <<Q(-2, 1)>>, <<Q(1, 2)>>}

\* the alpha argument of update_running_avg
Alphas == {Zero, Q(1, 3), One, Two}

\* shapes of rank 0 .. MaxRank, axis sizes 1 .. MaxDim, at most MaxNumel elements
Shapes ==
  {s \in UNION {[1 .. r -> 1 .. MaxDim] : r \in 0 .. MaxRank} :
     Numel(s) <= MaxNumel}

\* every tensor of a shape with elements in Vals
TensorsOf(shape) ==
  {[shape |-> shape, data |-> d] : d \in [1 .. Numel(shape) -> Vals]}

Tensors == UNION {TensorsOf(s) : s \in Shapes}

\* the tensor of a shape with every element v
Fill(shape, v) == [shape |-> shape, data |-> [k \in 1 .. Numel(shape) |-> v]]

\* the tensor of a shape whose k-th element (row-major, from 1) is start + k:
\* elements that tell where each one came from
Iota(shape, start) ==
  [shape |-> shape, data |-> [k \in 1 .. Numel(shape) |-> Q(start + k, 1)]]

\* a few tensors of a shape: the constant ones and one with distinct elements
Patterns(shape) == {Fill(shape, v) : v \in Vals} \cup {Iota(shape, -2)}

\* one tensor of every shape other than the given one
OtherShaped(shape) == {Fill(s, One) : s \in Shapes \ {shape}}

\* the second tensors tried with a first tensor x: those of its shape in pool,
\* and, when x is one of the Patterns, one of every other shape
Partners(x, pool) ==
  pool \cup (IF x \in Patterns(x.shape) THEN OtherShaped(x.shape) ELSE {})

\* shapes of the running averages the caller keeps updating call after call
ChainShapes == {<<>>}

NoAvg == [start |-> <<>>, calls |-> <<>>]

---------------------------------------------------------------------------
(* The caller.  Between calls it holds no tensors (op = "init"); a call     *)
(* action allocates the inputs, makes one call and keeps what the call     *)
(* left behind; the Again actions go on with what the last call left;      *)
(* Release drops everything, after which the next call can be made.        *)

Init ==
  /\ heap = <<>>
  /\ pre = <<>>
  /\ data_list = <<>>
  /\ op = "init"
  /\ args = [call |-> 0]
  /\ ret = <<>>
  /\ exc = ""
  /\ avg = NoAvg

\* the state a call on heap h leaves, r being what the helper returned
Called(name, a, h, r) ==
  /\ op' = name
  /\ args' = a
  /\ pre' = h
  /\ heap' = r.heap
  /\ ret' = r.ret
  /\ exc' = r.exc

CallAppendBiasOnes ==
  /\ op = "init"
  /\ \E x \in Tensors :
       /\ Called("append_bias_ones", [tensor |-> 1], <<x>>,
                 append_bias_ones(<<x>>, 1))
       /\ data_list' = <<>>
       /\ avg' = NoAvg

\* b is omitted (0), a itself (1), or a second tensor (2) of a's shape or of
\* another shape
CallGetCov ==
  /\ op = "init"
  /\ \E a \in Tensors, scale \in Scales :
       \/ \E b \in {0, 1} :
            /\ Called("get_cov", [a |-> 1, b |-> b, scale |-> scale], <<a>>,
                      get_cov(<<a>>, 1, b, scale))
            /\ data_list' = <<>>
            /\ avg' = NoAvg
       \/ \E b \in Partners(a, IF Rank(a) = 2 THEN TensorsOf(a.shape)
                                 ELSE Patterns(a.shape)) :
            /\ Called("get_cov", [a |-> 1, b |-> 2, scale |-> scale], <<a, b>>,
                      get_cov(<<a, b>>, 1, 2, scale))
            /\ data_list' = <<>>
            /\ avg' = NoAvg

CallGetElementwiseInverse ==
  /\ op = "init"
  /\ \E vector \in Tensors, damping \in Dampings :
       /\ Called("get_elementwise_inverse", [vector |-> 1, damping |-> damping],
                 <<vector>>, get_elementwise_inverse(<<vector>>, 1, damping))
       /\ data_list' = <<>>
       /\ avg' = NoAvg

\* the caller keeps the inverse it got and asks for the inverse of that
\* (inner records the damping of the call that made it)
CallGetElementwiseInverseAgain ==
  /\ op = "get_elementwise_inverse"
  /\ Len(heap) = 1
  /\ \E damping \in Dampings :
       LET h == Append(heap, ret[1])
       IN  /\ Called("get_elementwise_inverse",
                     [vector |-> 2, damping |-> damping, inner |-> args.damping],
                     h, get_elementwise_inverse(h, 2, damping))
           /\ data_list' = <<>>
           /\ avg' = NoAvg

\* the buffers a caller may collect after a first one of shape s: tensors of
\* the same number of axes, or of one axis more
BufferShapes(s) == {x \in Shapes : Len(x) = Len(s)} \cup {s \o <<1>>}

\* the buffers: n tensors of rank >= 1, the k-th labelled from 10 * k, and a
\* list that names them in order; or one buffer and a list that names it n
\* times
CallReshapeData ==
  /\ op = "init"
  /\ \E n \in 0 .. MaxList, batch_first \in BOOLEAN, collapse_dims \in BOOLEAN :
       \E first \in Shapes \ {<<>>} :
         \E shapes \in [1 .. n -> BufferShapes(first)], same \in BOOLEAN :
           /\ n > 0 => shapes[1] = first
           /\ same => \A k \in 1 .. n : shapes[k] = first
           /\ LET h == [k \in 1 .. (IF same /\ n > 0 THEN 1 ELSE n) |->
                          Iota(shapes[k], 10 * k)]
                  list == [k \in 1 .. n |-> IF same THEN 1 ELSE k]
                  r == reshape_data(h, list, batch_first, collapse_dims)
              IN  /\ Called("reshape_data",
                            [data_list |-> list, batch_first |-> batch_first,
                             collapse_dims |-> collapse_dims], h, r)
                  /\ data_list' = r.list
                  /\ avg' = NoAvg

\* one more call recorded in the history of a running average
Recorded(a, h, new, alpha) ==
  [a EXCEPT !.calls = Append(@, [new |-> h[new], alias |-> new = 2, alpha |-> alpha])]

\* the tensors a call may pass as new for a current: those of pool, and
\* current itself (which the caller passes by giving reference 2 twice;
\* reference 1 is then a buffer it does not pass)
NewChoices(current, pool) ==
  {[ref |-> 1, buf |-> x] : x \in pool} \cup {[ref |-> 2, buf |-> current]}

\* new (reference 1) and current (reference 2) are two tensors, or new is
\* current itself
CallUpdateRunningAvg ==
  /\ op = "init"
  /\ \E current \in Tensors, alpha \in Alphas :
       \E n \in NewChoices(current, Partners(current, Patterns(current.shape))) :
         LET h == <<n.buf, current>>
             r == update_running_avg(h, n.ref, 2, alpha)
         IN  /\ Called("update_running_avg",
                       [new |-> n.ref, current |-> 2, alpha |-> alpha], h, r)
             /\ data_list' = <<>>
             /\ avg' = IF current.shape \in ChainShapes /\ n.buf.shape = current.shape
                       THEN Recorded([start |-> <<current>>, calls |-> <<>>],
                                     h, n.ref, alpha)
                       ELSE NoAvg

\* the caller keeps current and updates it with the next new tensor
CallUpdateRunningAvgAgain ==
  /\ op = "update_running_avg"
  /\ avg # NoAvg
  /\ Len(avg.calls) < MaxUpdates
  /\ \E n \in NewChoices(heap[2], TensorsOf(heap[2].shape)), alpha \in Alphas :
       LET h == <<n.buf, heap[2]>>
           r == update_running_avg(h, n.ref, 2, alpha)
       IN  /\ Called("update_running_avg",
                     [new |-> n.ref, current |-> 2, alpha |-> alpha], h, r)
           /\ data_list' = <<>>
           /\ avg' = Recorded(avg, h, n.ref, alpha)

\* the caller lets go of the tensors of the last call
Release ==
  /\ op # "init"
  /\ heap' = <<>>
  /\ pre' = <<>>
  /\ data_list' = <<>>
  /\ op' = "init"
  /\ args' = [call |-> 0]
  /\ ret' = <<>>
  /\ exc' = ""
  /\ avg' = NoAvg

Next ==
  \/ CallAppendBiasOnes
  \/ CallGetCov
  \/ CallGetElementwiseInverse
  \/ CallGetElementwiseInverseAgain
  \/ CallReshapeData
  \/ CallUpdateRunningAvg
  \/ CallUpdateRunningAvgAgain
  \/ Release

Spec == Init /\ [][Next]_vars

---------------------------------------------------------------------------
(* get_cov *)

\* sum over n = 0 .. count - 1 of x[n][i] * y[n][j]
RECURSIVE ColumnProduct(_, _, _, _, _)
ColumnProduct(x, y, i, j, count) ==
  IF count = 0 THEN Zero
  ELSE Add(ColumnProduct(x, y, i, j, count - 1),
           Mul(At(x, <<count - 1, i>>), At(y, <<count - 1, j>>)))

\* the divisor of a get_cov call: the scale given, or N
CovScale == IF args.scale = <<>> THEN Q(pre[args.a].shape[1], 1) ELSE args.scale[1]

\* the b' of a get_cov call: b, or a when b is omitted
CovB == IF args.b = 0 THEN pre[args.a] ELSE pre[args.b]

\* the result of the last get_cov call is the [D, D] matrix of the scaled
\* column products of a and b', and is symmetric when b was omitted
CovAsClaimed ==
  LET a == pre[args.a]
      N == a.shape[1]
      D == a.shape[2]
      M == ret[1]
  IN  /\ ret # <<>>
      /\ M.shape = <<D, D>>
      /\ \A i, j \in 0 .. D - 1 :
           At(M, <<i, j>>) = Div(ColumnProduct(a, CovB, i, j, N), CovScale)
      /\ args.b = 0 =>
           \A i, j \in 0 .. D - 1 : At(M, <<i, j>>) = At(M, <<j, i>>)

C2_InvalidShape ==
  op = "get_cov" =>
    LET bad == \/ Rank(pre[args.a]) # 2
               \/ args.b # 0 /\ pre[args.b].shape # pre[args.a].shape
    IN  /\ bad <=> exc = "ValueError"
        /\ bad => ret = <<>>
        /\ ~bad => exc = "" /\ ret # <<>>

\* a is not 2-D, b has the shape of a, and the call failed
C2_Witness ==
  /\ op = "get_cov" /\ args.b = 2
  /\ Rank(pre[1]) = 3 /\ pre[2].shape = pre[1].shape
  /\ exc = "ValueError" /\ ret = <<>>

\* a valid call with scale zero returned a result
C2_WitnessZeroScale ==
  /\ op = "get_cov" /\ args.scale = <<Zero>> /\ exc = "" /\ ret # <<>>

---------------------------------------------------------------------------
(* update_running_avg *)

\* the last call was update_running_avg on two distinct tensors of one shape
DistinctUpdate ==
  /\ op = "update_running_avg"
  /\ args.new # args.current
  /\ pre[args.new].shape = pre[args.current].shape

\* C3: for distinct new and current of equal shape and every alpha, the call
\* leaves each element of current equal to alpha * old + (1 - alpha) * new:
\* the value of ((old * alpha/(1 - alpha)) + new) * (1 - alpha) when alpha # 1,
\* old itself when alpha = 1, and new when alpha = 0.
C3_RunningAverage ==
  DistinctUpdate =>
    LET old == pre[args.current]
        new == pre[args.new]
        now == heap[args.current]
        alpha == args.alpha
    IN  /\ exc = ""
        /\ now.shape = old.shape
        /\ \A k \in 1 .. Numel(old.shape) :
             /\ now.data[k] = Add(Mul(alpha, old.data[k]),
                                  Mul(Sub(One, alpha), new.data[k]))
             /\ alpha # One =>
                  now.data[k] =
                    Mul(Add(Mul(old.data[k], Div(alpha, Sub(One, alpha))),
                            new.data[k]),
                        Sub(One, alpha))
             /\ alpha = One => now.data[k] = old.data[k]
             /\ alpha = Zero => now.data[k] = new.data[k]

\* an update with 0 < alpha < 1 of a tensor of several elements that changed
\* current to something other than new
C3_Witness ==
  /\ DistinctUpdate /\ exc = ""
  /\ args.alpha = Q(1, 3)
  /\ Numel(pre[2].shape) > 1
  /\ heap[2] # pre[2] /\ heap[2] # pre[1]

\* the smallest and the largest of a non-empty set of finite scalars
MinOf(S) == CHOOSE x \in S : \A y \in S : Leq(x, y)
MaxOf(S) == CHOOSE x \in S : \A y \in S : Leq(y, x)

Elements(x) == {x.data[k] : k \in DOMAIN x.data}

\* every element the running average started from or was updated with
AvgInputs ==
  Elements(avg.start[1])
    \cup UNION {Elements(avg.calls[k].new) : k \in DOMAIN avg.calls}

\* every call on the running average so far had alpha in [0, 1] and a new
\* tensor distinct from current
AvgConvex ==
  \A k \in DOMAIN avg.calls :
    /\ ~avg.calls[k].alias
    /\ Leq(Zero, avg.calls[k].alpha) /\ Leq(avg.calls[k].alpha, One)

\* the last update was called with current holding the elements of new
UpdateOfEqual ==
  /\ op = "update_running_avg"
  /\ exc = ""
  /\ pre[args.new] = pre[args.current]

C10_WitnessEqual ==
  /\ UpdateOfEqual /\ args.new # args.current
  /\ args.alpha = Two
  /\ heap[2] = pre[2] /\ pre[2] # Fill(pre[2].shape, Zero)

---------------------------------------------------------------------------
(* get_elementwise_inverse *)

\* the damped value of an element x in the last call
Damped(x) == IF args.damping = <<>> THEN x ELSE Add(x, args.damping[1])

\* C4: get_elementwise_inverse returns a tensor of the shape of vector whose
\* element at each position is 0 when the damped value x = vector[i] + d
\* (vector[i] itself when damping is omitted) is exactly 0, and 1/x otherwise.
C4_ElementwiseInverse ==
  op = "get_elementwise_inverse" =>
    LET vector == pre[args.vector]
    IN  /\ exc = "" /\ ret # <<>>
        /\ ret[1].shape = vector.shape
        /\ \A k \in 1 .. Numel(vector.shape) :
             ret[1].data[k] =
               IF Damped(vector.data[k]) = Zero THEN Zero
               ELSE Div(One, Damped(vector.data[k]))

\* a call with a nonzero damping d on a vector that holds both -d (which
\* yields 0) and 0 (which yields 1/d)
C4_Witness ==
  /\ op = "get_elementwise_inverse" /\ args.vector = 1
  /\ args.damping = <<Q(-2, 1)>>
  /\ \E i, j \in DOMAIN pre[1].data :
       /\ pre[1].data[i] = Two /\ ret[1].data[i] = Zero
       /\ pre[1].data[j] = Zero /\ ret[1].data[j] = Q(-1, 2)

\* the last call inverted, with no damping, the result of a call with no
\* damping on a vector without zero elements
RoundTrip ==
  /\ op = "get_elementwise_inverse"
  /\ args.vector = 2 /\ args.damping = <<>> /\ args.inner = <<>>
  /\ \A k \in DOMAIN pre[1].data : pre[1].data[k] # Zero

\* C9: for a vector v without zero elements, get_elementwise_inverse of
\* get_elementwise_inverse(v), both without damping, is v again, element by
\* element and in shape (pre[1] is v as the caller holds it, pre[2] the
\* result of the first call).
C9_RoundTrip ==
  RoundTrip =>
    /\ exc = "" /\ ret # <<>>
    /\ ret[1].shape = pre[1].shape
    /\ \A k \in DOMAIN pre[1].data : ret[1].data[k] = pre[1].data[k]

\* a round trip on a vector of several elements that are not their own inverses
C9_Witness ==
  /\ RoundTrip
  /\ Numel(pre[1].shape) > 1
  /\ \A k \in DOMAIN pre[1].data : pre[2].data[k] # pre[1].data[k]
  /\ ret = <<pre[1]>>

---------------------------------------------------------------------------
(* append_bias_ones *)

\* C8: for a tensor of shape [..., D] with at least one axis, append_bias_ones
\* returns a tensor of shape [..., D + 1] that holds the input in the first D
\* positions of the last axis and 1 in the last one, at every leading index.
C8_AppendBiasOnes ==
  (op = "append_bias_ones" /\ Rank(pre[1]) >= 1) =>
    LET x == pre[1]
        r == Rank(x)
        D == x.shape[r]
    IN  /\ exc = "" /\ ret # <<>>
        /\ ret[1].shape = [x.shape EXCEPT ![r] = D + 1]
        /\ \A idx \in Indices(ret[1].shape) :
             At(ret[1], idx) = IF idx[r] = D THEN One ELSE At(x, idx)

\* a tensor of three axes, none of its elements 1, with its column of ones
C8_Witness ==
  /\ op = "append_bias_ones" /\ exc = ""
  /\ pre[1].shape = <<2, 1, 2>>
  /\ \A k \in DOMAIN pre[1].data : pre[1].data[k] # One
  /\ ret[1].shape = <<2, 1, 3>>
  /\ At(ret[1], <<1, 0, 2>>) = One

---------------------------------------------------------------------------
(* reshape_data *)

\* the axis a reshape_data call concatenates along
CatAxis == IF args.batch_first THEN 0 ELSE 1

\* the tensors the list named when the call was made
Listed == Deref(pre, args.data_list)

\* data_list is non-empty and its tensors have the concatenation axis and
\* agree on every other axis
Concatenable ==
  /\ Len(Listed) > 0
  /\ \A k \in 1 .. Len(Listed) :
       /\ Rank(Listed[k]) = Rank(Listed[1])
       /\ Rank(Listed[k]) > CatAxis
       /\ \A i \in 1 .. Rank(Listed[1]) :
            i # CatAxis + 1 => Listed[k].shape[i] = Listed[1].shape[i]

\* number of positions along the concatenation axis before the k-th tensor
RECURSIVE Before(_)
Before(k) ==
  IF k = 1 THEN 0 ELSE Before(k - 1) + Listed[k - 1].shape[CatAxis + 1]

\* the shape of the concatenation
CatShape ==
  [Listed[1].shape EXCEPT ![CatAxis + 1] = Before(Len(Listed) + 1)]

\* whether the call is to collapse the concatenation to two axes
Collapses == args.collapse_dims /\ Len(CatShape) > 2

\* where the element at index idx of the concatenation is in the result: at
\* idx, or after a collapse at [row-major position of the leading indices
\* among the leading axes, last index]
Place(idx) ==
  IF Collapses
  THEN LET r == Len(CatShape)
       IN  <<Ravel(SubSeq(CatShape, 1, r - 1), SubSeq(idx, 1, r - 1)), idx[r]>>
  ELSE idx

C6_AlwaysTwoAxes ==
  (op = "reshape_data" /\ args.collapse_dims /\ exc = "") => Rank(ret[1]) = 2

---------------------------------------------------------------------------
(* What the calls leave of their inputs *)

C7_WitnessUpdate ==
  /\ op = "update_running_avg" /\ args.new = 1 /\ exc = ""
  /\ heap[2] # pre[2] /\ heap[1] = pre[1]

\* a reshape of a list of two buffers that left the list and the buffers
C7_WitnessReshape ==
  /\ op = "reshape_data" /\ exc = "" /\ Len(args.data_list) = 2
  /\ data_list = args.data_list /\ heap = pre

============================================================================
